---- MODULE Spec2Model ----
(***************************************************************************)
(* Model of src/src/pubsub.js: the PubSub registry (a Map from topic to an *)
(* array of Subscription objects) with its operations subscribe, publish,  *)
(* unsubscribe, unsubscribeSymbol and unsubscribeHandler.                  *)
(*                                                                         *)
(* JavaScript values are records [type, s, n]: type is the result of       *)
(* typeof, s the string payload (string contents, function name, symbol    *)
(* description, or the class of a number) and n the numeric payload (the   *)
(* value of a finite number, the identity of a symbol).                    *)
(***************************************************************************)
EXTENDS Integers, Sequences, FiniteSets, TLC

(***************************************************************************)
(* Bounds of the model.                                                    *)
(***************************************************************************)
\* number of Symbol(topic) evaluations (calls of subscribe with a valid
\* topic and handler) in one behaviour
MaxSymbols == 3
\* number of publish calls counted for a subscription with unbounded budget
MaxPublishes == 2

(***************************************************************************)
(* JavaScript values.                                                      *)
(***************************************************************************)
Str(s) == [type |-> "string", s |-> s, n |-> 0]
Fn(name) == [type |-> "function", s |-> name, n |-> 0]
Num(n) == [type |-> "number", s |-> "finite", n |-> n]
Infinity == [type |-> "number", s |-> "Infinity", n |-> 0]
Undefined == [type |-> "undefined", s |-> "", n |-> 0]
Obj == [type |-> "object", s |-> "{}", n |-> 0]
True == [type |-> "boolean", s |-> "true", n |-> 0]
False == [type |-> "boolean", s |-> "false", n |-> 0]
Bool(b) == IF b THEN True ELSE False
\* Symbol(description): identity is the n field, equal only to itself
Sym(description, id) == [type |-> "symbol", s |-> description, n |-> id]

typeof(v) == v.type

\* v < k and v > k for a JavaScript number v and an integer k
NumLess(v, k) == v.s = "finite" /\ v.n < k

\* faulty variant of v > k: the comparison v >= k
NumGreaterOrEqual(v, k) == v.s = "Infinity" \/ (v.s = "finite" /\ v.n >= k)

NumGreater(v, k) == v.s = "Infinity" \/ (v.s = "finite" /\ v.n > k)
\* v - 1 for a JavaScript number v
NumMinusOne(v) == IF v.s = "finite" THEN Num(v.n - 1) ELSE v

(***************************************************************************)
(* Argument validation.  Each assert yields TRUE when it throws TypeError. *)
(***************************************************************************)
_assertValidTopic(topic) == typeof(topic) # "string" \/ topic.s = ""

_assertValidTopicAndHandler(topic, handler) ==
  _assertValidTopic(topic) \/ typeof(handler) # "function"

_assertSymbol(symbol) == typeof(symbol) # "symbol"

(***************************************************************************)
(* class Subscription: the constructor yields the object, or throws.       *)
(***************************************************************************)
SubscriptionThrows(invocationsLeft) ==
  typeof(invocationsLeft) # "number" \/ NumLess(invocationsLeft, 1)

Subscription(symbol, handler, invocationsLeft) ==
  [symbol |-> symbol, invocationsLeft |-> invocationsLeft, handler |-> handler]

(***************************************************************************)
(* The JavaScript Map: a sequence of entries [key, value] in insertion     *)
(* order; the value is the array of subscriptions of the topic.            *)
(***************************************************************************)
MapKeys(map) == {map[i].key : i \in 1..Len(map)}
MapHas(map, key) == key \in MapKeys(map)
MapIndex(map, key) == CHOOSE i \in 1..Len(map) : map[i].key = key
MapGet(map, key) == map[MapIndex(map, key)].value
MapSet(map, key, value) ==
  IF MapHas(map, key)
  THEN [map EXCEPT ![MapIndex(map, key)].value = value]
  ELSE Append(map, [key |-> key, value |-> value])

\* faulty variant: array.splice(idx), which removes up to the end
SpliceToEnd(array, idx) == SubSeq(array, 1, idx - 1)

\* array.splice(idx, 1), idx counted from 1
Splice(array, idx) ==
  SubSeq(array, 1, idx - 1) \o SubSeq(array, idx + 1, Len(array))

(***************************************************************************)
(* Symbol(topic): a fresh symbol whose description is the topic.           *)
(* symbolCount is the number of symbols the program has created so far.    *)
(***************************************************************************)
\* faulty variant: Symbol.for(topic), the one shared symbol of the topic
SymbolFor(topic, symbolCount) == Sym(topic.s, 1)

Symbol(topic, symbolCount) == Sym(topic.s, symbolCount + 1)

(***************************************************************************)
(* PubSub.subscribe.  The result holds the map and the symbol count after  *)
(* the call, whether the call threw, and the returned value.               *)
(***************************************************************************)

\* faulty variant: subscriptions.unshift(subscription), which puts the new
\* subscription first
subscribeUnshift(map, symbolCount, topic, handler, invocationsLeftArg) ==
  LET invocationsLeft ==
        IF invocationsLeftArg = Undefined THEN Infinity ELSE invocationsLeftArg
      map1 == IF ~MapHas(map, topic) THEN MapSet(map, topic, <<>>) ELSE map
      symbol == Symbol(topic, symbolCount)
      subscription == Subscription(symbol, handler, invocationsLeft)
  IN  IF _assertValidTopicAndHandler(topic, handler)
      THEN [map |-> map, symbolCount |-> symbolCount,
            threw |-> TRUE, ret |-> Undefined]
      ELSE IF SubscriptionThrows(invocationsLeft)
      THEN [map |-> map1, symbolCount |-> symbolCount + 1,
            threw |-> TRUE, ret |-> Undefined]
      ELSE [map |-> MapSet(map1, topic,
                           <<subscription>> \o MapGet(map1, topic)),
            symbolCount |-> symbolCount + 1,
            threw |-> FALSE, ret |-> symbol]

subscribe(map, symbolCount, topic, handler, invocationsLeftArg) ==
  LET \* default parameter value: invocationsLeft = Infinity
      invocationsLeft ==
        IF invocationsLeftArg = Undefined THEN Infinity ELSE invocationsLeftArg
      map1 == IF ~MapHas(map, topic) THEN MapSet(map, topic, <<>>) ELSE map
      symbol == Symbol(topic, symbolCount)
      subscription == Subscription(symbol, handler, invocationsLeft)
  IN  IF _assertValidTopicAndHandler(topic, handler)
      THEN [map |-> map, symbolCount |-> symbolCount,
            threw |-> TRUE, ret |-> Undefined]
      ELSE IF SubscriptionThrows(invocationsLeft)
      THEN [map |-> map1, symbolCount |-> symbolCount + 1,
            threw |-> TRUE, ret |-> Undefined]
      ELSE [map |-> MapSet(map1, topic,
                           Append(MapGet(map1, topic), subscription)),
            symbolCount |-> symbolCount + 1,
            threw |-> FALSE, ret |-> symbol]

(***************************************************************************)
(* PubSub.unsubscribeHandler.                                              *)
(***************************************************************************)

\* faulty variant: the index -1 of an absent handler, which splice counts
\* from the end of the array
FirstWithHandlerFromEnd(subscriptions, handler) ==
  IF \E i \in 1..Len(subscriptions) : subscriptions[i].handler = handler
  THEN CHOOSE i \in 1..Len(subscriptions) :
         /\ subscriptions[i].handler = handler
         /\ \A j \in 1..(i - 1) : subscriptions[j].handler # handler
  ELSE Len(subscriptions)

\* index of the first subscription of the array with the handler, 0 if none
FirstWithHandler(subscriptions, handler) ==
  IF \E i \in 1..Len(subscriptions) : subscriptions[i].handler = handler
  THEN CHOOSE i \in 1..Len(subscriptions) :
         /\ subscriptions[i].handler = handler
         /\ \A j \in 1..(i - 1) : subscriptions[j].handler # handler
  ELSE 0

unsubscribeHandler(map, topic, handler) ==
  IF _assertValidTopicAndHandler(topic, handler)
  THEN [map |-> map, threw |-> TRUE, ret |-> Undefined]
  ELSE IF ~MapHas(map, topic)
  THEN [map |-> map, threw |-> FALSE, ret |-> False]
  ELSE LET subscriptions == MapGet(map, topic)
           idx == FirstWithHandler(subscriptions, handler)
       IN  IF idx # 0
           THEN [map |-> MapSet(map, topic, Splice(subscriptions, idx)),
                 threw |-> FALSE, ret |-> True]
           ELSE [map |-> map, threw |-> FALSE, ret |-> False]

(***************************************************************************)
(* PubSub.unsubscribeSymbol.                                               *)
(***************************************************************************)
\* index of the first subscription of the array with the symbol, 0 if none
FirstWithSymbol(subscriptions, symbol) ==
  IF \E i \in 1..Len(subscriptions) : subscriptions[i].symbol = symbol
  THEN CHOOSE i \in 1..Len(subscriptions) :
         /\ subscriptions[i].symbol = symbol
         /\ \A j \in 1..(i - 1) : subscriptions[j].symbol # symbol
  ELSE 0

\* index of the first entry of the map whose array holds the symbol, 0 if none
FirstTopicWithSymbol(map, symbol) ==
  IF \E i \in 1..Len(map) : FirstWithSymbol(map[i].value, symbol) # 0
  THEN CHOOSE i \in 1..Len(map) :
         /\ FirstWithSymbol(map[i].value, symbol) # 0
         /\ \A j \in 1..(i - 1) : FirstWithSymbol(map[j].value, symbol) = 0
  ELSE 0

\* faulty variant: returns true whether or not a subscription was removed
unsubscribeSymbolTrue(map, symbol) ==
  IF _assertSymbol(symbol)
  THEN [map |-> map, threw |-> TRUE, ret |-> Undefined]
  ELSE LET t == FirstTopicWithSymbol(map, symbol)
       IN  IF t # 0
           THEN [map |-> [map EXCEPT ![t].value =
                            Splice(@, FirstWithSymbol(@, symbol))],
                 threw |-> FALSE, ret |-> True]
           ELSE [map |-> map, threw |-> FALSE, ret |-> True]

unsubscribeSymbol(map, symbol) ==
  IF _assertSymbol(symbol)
  THEN [map |-> map, threw |-> TRUE, ret |-> Undefined]
  ELSE LET t == FirstTopicWithSymbol(map, symbol)
       IN  IF t # 0
           THEN [map |-> [map EXCEPT ![t].value =
                            Splice(@, FirstWithSymbol(@, symbol))],
                 threw |-> FALSE, ret |-> True]
           ELSE [map |-> map, threw |-> FALSE, ret |-> False]

(***************************************************************************)
(* PubSub.unsubscribe: dispatch on the number of arguments.                *)
(***************************************************************************)
unsubscribe(map, args) ==
  IF Len(args) = 1 THEN unsubscribeSymbol(map, args[1])
  ELSE IF Len(args) = 2 THEN unsubscribeHandler(map, args[1], args[2])
  ELSE [map |-> map, threw |-> TRUE, ret |-> Undefined]

(***************************************************************************)
(* PubSub.publish.  The state of a pass is the map and the sequence of     *)
(* handler calls made so far, each [symbol, handler, args].                *)
(***************************************************************************)
\* faulty variant: sub.handler(args[0]), which forwards the first argument
publishCallbackFirstArg(st, topic, args, k) ==
  LET sub == MapGet(st.map, topic)[k]
  IN  IF NumGreater(sub.invocationsLeft, 0)
      THEN [map |-> MapSet(st.map, topic,
                     [MapGet(st.map, topic) EXCEPT ![k].invocationsLeft =
                        NumMinusOne(@)]),
            calls |-> Append(st.calls, [symbol |-> sub.symbol,
                                        handler |-> sub.handler,
                                        args |-> <<Head(args)>>])]
      ELSE [map |-> unsubscribeHandler(st.map, topic, sub.handler).map,
            calls |-> st.calls]

\* faulty variant: an exhausted subscription is passed over and kept
publishCallbackKeep(st, topic, args, k) ==
  LET sub == MapGet(st.map, topic)[k]
  IN  IF NumGreater(sub.invocationsLeft, 0)
      THEN [map |-> MapSet(st.map, topic,
                     [MapGet(st.map, topic) EXCEPT ![k].invocationsLeft =
                        NumMinusOne(@)]),
            calls |-> Append(st.calls, [symbol |-> sub.symbol,
                                        handler |-> sub.handler,
                                        args |-> args])]
      ELSE st

\* the arrow function passed to forEach, applied to the element at index k
publishCallback(st, topic, args, k) ==
  LET sub == MapGet(st.map, topic)[k]
  IN  IF NumGreater(sub.invocationsLeft, 0)
      THEN \* sub.handler(...args); sub.invocationsLeft -= 1
           [map |-> MapSet(st.map, topic,
                     [MapGet(st.map, topic) EXCEPT ![k].invocationsLeft =
                        NumMinusOne(@)]),
            calls |-> Append(st.calls, [symbol |-> sub.symbol,
                                        handler |-> sub.handler,
                                        args |-> args])]
      ELSE [map |-> unsubscribeHandler(st.map, topic, sub.handler).map,
            calls |-> st.calls]

\* Array.prototype.forEach on the array of the topic: the length is read
\* once, the indices run from the first to that length, and an index the
\* array no longer has is passed over; x is the state the callback leaves,
\* from which the next index is visited
RECURSIVE forEach(_, _, _, _, _)
forEach(st, topic, args, k, len) ==
  IF k > len THEN st
  ELSE IF k > Len(MapGet(st.map, topic))
  THEN forEach(st, topic, args, k + 1, len)
  ELSE CHOOSE r \in {forEach(x, topic, args, k + 1, len) :
                       x \in {publishCallback(st, topic, args, k)}} : TRUE

\* faulty variant: returns whether a handler was invoked
publishInvoked(map, topic, args) ==
  IF _assertValidTopic(topic)
  THEN [map |-> map, threw |-> TRUE, ret |-> Undefined, calls |-> <<>>]
  ELSE IF ~MapHas(map, topic) \/ Len(MapGet(map, topic)) = 0
  THEN [map |-> map, threw |-> FALSE, ret |-> False, calls |-> <<>>]
  ELSE LET st == forEach([map |-> map, calls |-> <<>>], topic, args,
                         1, Len(MapGet(map, topic)))
       IN  [map |-> st.map, threw |-> FALSE, ret |-> Bool(st.calls # <<>>),
            calls |-> st.calls]

publish(map, topic, args) ==
  IF _assertValidTopic(topic)
  THEN [map |-> map, threw |-> TRUE, ret |-> Undefined, calls |-> <<>>]
  ELSE IF ~MapHas(map, topic) \/ Len(MapGet(map, topic)) = 0
  THEN [map |-> map, threw |-> FALSE, ret |-> False, calls |-> <<>>]
  ELSE LET st == forEach([map |-> map, calls |-> <<>>], topic, args,
                         1, Len(MapGet(map, topic)))
       IN  [map |-> st.map, threw |-> FALSE, ret |-> True,
            calls |-> st.calls]

(***************************************************************************)
(* The arguments the callers pass.                                         *)
(***************************************************************************)
\* subscribe(topic, handler, invocationsLeft): the valid calls, then one
\* call for each way an argument can be invalid
SubscribeArgsValid ==
  {<<Str("a"), handler, invocationsLeft>> :
     handler \in {Fn("h1"), Fn("h2")}, invocationsLeft \in {Undefined, Num(1)}}
  \cup {<<Str("a"), Fn("h2"), Num(2)>>, <<Str("b"), Fn("h1"), Num(1)>>}
SubscribeArgsInvalid ==
  {<<Str(""), Fn("h1"), Undefined>>, <<Num(7), Fn("h1"), Num(1)>>,
   <<Str("a"), Obj, Undefined>>, <<Str("a"), Fn("h1"), Num(0)>>,
   <<Str("b"), Fn("h1"), Num(-1)>>, <<Str("a"), Fn("h2"), Str("1")>>}
SubscribeArgsInputs == SubscribeArgsValid \cup SubscribeArgsInvalid

\* publish(topic, ...args)
PublishArgsValid ==
  {<<Str("a"), Num(42), Str("w")>>, <<Str("b"), Str("v")>>}
PublishArgsInvalid == {<<Str(""), Str("v")>>, <<Num(7), Str("v")>>}
PublishArgsInputs == PublishArgsValid \cup PublishArgsInvalid

\* a symbol that no subscribe call of this registry returned
ForeignSymbol == Sym("a", 0)

\* unsubscribe(...args) with two arguments, and with an invalid argument
\* list: none, three, one that is no symbol, an invalid topic or handler
UnsubscribeArgsPairs ==
  {<<topic, handler>> :
     topic \in {Str("a"), Str("b")}, handler \in {Fn("h1"), Fn("h2")}}
UnsubscribeArgsInvalid ==
  {<<>>, <<Str("a"), Fn("h1"), Fn("h2")>>, <<Str("a")>>,
   <<Str(""), Fn("h1")>>, <<Num(7), Fn("h1")>>, <<Str("a"), Obj>>}

(***************************************************************************)
(* State.                                                                  *)
(*   topicToSubscriptionsMap  the Map of the PubSub instance               *)
(*   symbolCount              number of symbols created by Symbol(topic)   *)
(*   last                     the last call: operation, arguments, whether *)
(*                            it threw, returned value, the map before the *)
(*                            call and the handler calls it made           *)
(*   returned                 the symbols the subscribe calls returned, in *)
(*                            call order                                   *)
(*   ledger                   one entry per returned symbol, in the same   *)
(*                            order: the topic and the budget passed, the  *)
(*                            number of publish calls to the topic since,  *)
(*                            the number of invocations of the             *)
(*                            subscription, and whether an unsubscribe     *)
(*                            call removed it                              *)
(* A specification records either the last call or the ledger.             *)
(***************************************************************************)
VARIABLES topicToSubscriptionsMap, symbolCount, returned, last, ledger

vars == <<topicToSubscriptionsMap, symbolCount, returned, last, ledger>>

\* the symbols of the subscriptions held by the map
SymbolsIn(map) ==
  UNION {{map[i].value[j].symbol : j \in 1..Len(map[i].value)} :
         i \in 1..Len(map)}

\* number of elements of the sequence of calls made for the symbol
RECURSIVE CountCalls(_, _)
CountCalls(calls, symbol) ==
  IF calls = <<>> THEN 0
  ELSE (IF Head(calls).symbol = symbol THEN 1 ELSE 0)
       + CountCalls(Tail(calls), symbol)

\* the symbols a caller passes: those subscribe returned, and one that this
\* registry never returned
SymbolArgsInputs ==
  {<<returned[i]>> : i \in 1..Len(returned)} \cup {<<ForeignSymbol>>}

UnsubscribeArgsValid == SymbolArgsInputs \cup UnsubscribeArgsPairs
UnsubscribeArgsInputs == UnsubscribeArgsValid \cup UnsubscribeArgsInvalid

Init ==
  /\ topicToSubscriptionsMap = <<>>
  /\ symbolCount = 0
  /\ returned = <<>>
  /\ last = [op |-> "new", args |-> <<>>, threw |-> FALSE, ret |-> Undefined,
             pre |-> <<>>, calls |-> <<>>]
  /\ ledger = <<>>

(***************************************************************************)
(* The calls, recording the last call.                                     *)
(***************************************************************************)
Subscribe(inputs) ==
  \E args \in inputs :
    LET r == subscribe(topicToSubscriptionsMap, symbolCount,
                       args[1], args[2], args[3])
    IN  /\ r.symbolCount <= MaxSymbols
        /\ topicToSubscriptionsMap' = r.map
        /\ symbolCount' = r.symbolCount
        /\ returned' = IF r.threw THEN returned ELSE Append(returned, r.ret)
        /\ last' = [op |-> "subscribe", args |-> args,
                    threw |-> r.threw, ret |-> r.ret,
                    pre |-> topicToSubscriptionsMap, calls |-> <<>>]
        /\ UNCHANGED ledger

Publish(inputs) ==
  \E args \in inputs :
    LET r == publish(topicToSubscriptionsMap, Head(args), Tail(args))
    IN  /\ topicToSubscriptionsMap' = r.map
        /\ last' = [op |-> "publish", args |-> args,
                    threw |-> r.threw, ret |-> r.ret,
                    pre |-> topicToSubscriptionsMap, calls |-> r.calls]
        /\ UNCHANGED <<symbolCount, returned, ledger>>

Unsubscribe(inputs) ==
  \E args \in inputs :
    LET r == unsubscribe(topicToSubscriptionsMap, args)
    IN  /\ topicToSubscriptionsMap' = r.map
        /\ last' = [op |-> "unsubscribe", args |-> args,
                    threw |-> r.threw, ret |-> r.ret,
                    pre |-> topicToSubscriptionsMap, calls |-> <<>>]
        /\ UNCHANGED <<symbolCount, returned, ledger>>

\* the calls whose arguments are valid
Next ==
  \/ Subscribe(SubscribeArgsValid)
  \/ Publish(PublishArgsValid)
  \/ Unsubscribe(UnsubscribeArgsValid)

Spec == Init /\ [][Next]_vars

\* all calls, those with invalid arguments included
NextAll ==
  \/ Subscribe(SubscribeArgsInputs)
  \/ Publish(PublishArgsInputs)
  \/ Unsubscribe(UnsubscribeArgsInputs)

SpecAll == Init /\ [][NextAll]_vars

(***************************************************************************)
(* The calls with valid arguments, recording the ledger.                   *)
(***************************************************************************)
\* the publish calls counted for an entry: one more than its budget, or
\* MaxPublishes when the budget is unbounded
PublishedCap(entry) ==
  IF entry.invocationsLeft = Undefined THEN MaxPublishes
  ELSE entry.invocationsLeft.n + 1

SubscribeLedger ==
  \E args \in SubscribeArgsValid :
    LET r == subscribe(topicToSubscriptionsMap, symbolCount,
                       args[1], args[2], args[3])
    IN  /\ r.symbolCount <= MaxSymbols
        /\ topicToSubscriptionsMap' = r.map
        /\ symbolCount' = r.symbolCount
        /\ returned' = Append(returned, r.ret)
        /\ ledger' = Append(ledger, [topic |-> args[1],
                                     invocationsLeft |-> args[3],
                                     published |-> 0, invoked |-> 0,
                                     unsubscribed |-> FALSE])
        /\ UNCHANGED last

PublishLedger ==
  \E args \in PublishArgsValid :
    LET r == publish(topicToSubscriptionsMap, Head(args), Tail(args))
    IN  /\ topicToSubscriptionsMap' = r.map
        /\ ledger' = [i \in 1..Len(ledger) |->
                       IF /\ ledger[i].topic = Head(args)
                          /\ ledger[i].published < PublishedCap(ledger[i])
                       THEN [ledger[i] EXCEPT
                               !.published = @ + 1,
                               !.invoked =
                                 @ + CountCalls(r.calls, returned[i])]
                       ELSE ledger[i]]
        /\ UNCHANGED <<symbolCount, returned, last>>

UnsubscribeLedger ==
  \E args \in UnsubscribeArgsValid :
    LET r == unsubscribe(topicToSubscriptionsMap, args)
    IN  /\ topicToSubscriptionsMap' = r.map
        /\ ledger' = [i \in 1..Len(ledger) |->
                       IF /\ returned[i] \in SymbolsIn(topicToSubscriptionsMap)
                          /\ returned[i] \notin SymbolsIn(r.map)
                       THEN [ledger[i] EXCEPT !.unsubscribed = TRUE]
                       ELSE ledger[i]]
        /\ UNCHANGED <<symbolCount, returned, last>>

NextLedger == SubscribeLedger \/ PublishLedger \/ UnsubscribeLedger

SpecLedger == Init /\ [][NextLedger]_vars

(***************************************************************************)
(* Handlers that act.  sub.handler(...args) runs the body of the handler   *)
(* inside publish, and the body may throw or call the registry.  The       *)
(* handlers here, by name:                                                 *)
(*   h1, h2               return                                           *)
(*   hThrow               throws                                           *)
(*   hUnsubscribeSymbol   calls unsubscribe(symbol) with the symbol its    *)
(*                        own subscribe call returned, which the closure   *)
(*                        holds                                            *)
(*   hUnsubscribeHandler  calls unsubscribe(topic, itself)                 *)
(*   hSubscribe           calls subscribe(topic, h1, 1)                    *)
(*   hPublish             calls publish(topic, "n") unless it is already   *)
(*                        running, and returns                             *)
(* The state of a pass is the map, the symbol count, the sequence of       *)
(* handler calls begun so far, whether an exception is propagating, the    *)
(* value returned, and the symbols of the subscriptions a removal was      *)
(* aimed at.                                                               *)
(***************************************************************************)
\* the topic the handlers use when they call the registry
HandlerTopic == Str("a")

\* a function object whose closure holds the symbol
Closure(name, symbol) == [type |-> "function", s |-> name, n |-> symbol.n]

\* the symbol the closure holds
ClosureSymbol(handler) == Sym(HandlerTopic.s, handler.n)

\* the symbol of the subscription unsubscribeHandler removes, if any
HandlerTarget(map, topic, handler) ==
  IF MapHas(map, topic) /\ FirstWithHandler(MapGet(map, topic), handler) # 0
  THEN {MapGet(map, topic)[FirstWithHandler(MapGet(map, topic),
                                            handler)].symbol}
  ELSE {}

\* sub.invocationsLeft -= 1 on the subscription object, wherever the map
\* holds it
Decrement(map, symbol) ==
  [i \in 1..Len(map) |->
     [key |-> map[i].key,
      value |-> [j \in 1..Len(map[i].value) |->
                   IF map[i].value[j].symbol = symbol
                   THEN [map[i].value[j] EXCEPT
                           !.invocationsLeft = NumMinusOne(@)]
                   ELSE map[i].value[j]]]]

\* faulty variant: the decrement made before the handler is called, so
\* that it is made whether or not the handler throws
afterHandlerAlways(st, symbol) ==
  [st EXCEPT !.map = Decrement(@, symbol)]

\* the statement after sub.handler(...args): reached when the handler
\* returned, not when it threw
afterHandler(st, symbol) ==
  IF st.threw THEN st ELSE [st EXCEPT !.map = Decrement(@, symbol)]

RECURSIVE publishHandlers(_, _, _, _)
RECURSIVE forEachHandlers(_, _, _, _, _, _)
RECURSIVE publishCallbackHandlers(_, _, _, _, _)
RECURSIVE handlerBody(_, _, _, _)

\* sub.handler(...args); running says that hPublish is on the call stack
handlerBody(st, sub, args, running) ==
  LET handler == sub.handler
      st1 == [st EXCEPT !.calls = Append(@, [symbol |-> sub.symbol,
                                             handler |-> handler,
                                             args |-> args])]
  IN  IF handler.s = "hThrow"
      THEN [st1 EXCEPT !.threw = TRUE]
      ELSE IF handler.s = "hUnsubscribeSymbol"
      THEN [st1 EXCEPT
              !.map = unsubscribe(@, <<ClosureSymbol(handler)>>).map,
              !.targeted = @ \cup {ClosureSymbol(handler)}]
      ELSE IF handler.s = "hUnsubscribeHandler"
      THEN [st1 EXCEPT
              !.map = unsubscribe(@, <<HandlerTopic, handler>>).map,
              !.targeted = @ \cup HandlerTarget(st1.map, HandlerTopic,
                                                handler)]
      ELSE IF handler.s = "hSubscribe"
      THEN LET r == subscribe(st1.map, st1.symbolCount,
                              HandlerTopic, Fn("h1"), Num(1))
           IN  [st1 EXCEPT !.map = r.map, !.symbolCount = r.symbolCount]
      ELSE IF handler.s = "hPublish" /\ ~running
      THEN publishHandlers(st1, HandlerTopic, <<Str("n")>>, TRUE)
      ELSE st1

\* the arrow function passed to forEach, applied to the element at index k
publishCallbackHandlers(st, topic, args, k, running) ==
  LET sub == MapGet(st.map, topic)[k]
  IN  IF NumGreater(sub.invocationsLeft, 0)
      THEN afterHandler(handlerBody(st, sub, args, running), sub.symbol)
      ELSE [st EXCEPT
              !.map = unsubscribeHandler(@, topic, sub.handler).map,
              !.targeted = @ \cup {sub.symbol}]

\* Array.prototype.forEach, left when the callback throws
forEachHandlers(st, topic, args, k, len, running) ==
  IF k > len \/ st.threw THEN st
  ELSE IF k > Len(MapGet(st.map, topic))
  THEN forEachHandlers(st, topic, args, k + 1, len, running)
  ELSE forEachHandlers(publishCallbackHandlers(st, topic, args, k, running),
                       topic, args, k + 1, len, running)

\* PubSub.publish with the handlers run
publishHandlers(st, topic, args, running) ==
  IF _assertValidTopic(topic)
  THEN [st EXCEPT !.threw = TRUE, !.ret = Undefined]
  ELSE IF ~MapHas(st.map, topic) \/ Len(MapGet(st.map, topic)) = 0
  THEN [st EXCEPT !.ret = False]
  ELSE LET st1 == forEachHandlers(st, topic, args, 1,
                                  Len(MapGet(st.map, topic)), running)
       IN  IF st1.threw THEN [st1 EXCEPT !.ret = Undefined]
           ELSE [st1 EXCEPT !.ret = True]

\* subscribe(topic, handler, invocationsLeft) with the handlers that act;
\* a closure is made for the call and holds the symbol the call returns
SubscribeArgsHandlers ==
  {<<HandlerTopic, Fn("h1"), Num(1)>>,
   <<HandlerTopic, Fn("h2"), Undefined>>,
   <<HandlerTopic, Fn("hThrow"), Undefined>>,
   <<HandlerTopic, Fn("hThrow"), Num(1)>>,
   <<HandlerTopic, Closure("hUnsubscribeSymbol",
                           Symbol(HandlerTopic, symbolCount)), Undefined>>,
   <<HandlerTopic, Fn("hUnsubscribeHandler"), Undefined>>,
   <<HandlerTopic, Fn("hSubscribe"), Undefined>>,
   <<HandlerTopic, Fn("hPublish"), Undefined>>,
   <<HandlerTopic, Fn("hPublish"), Num(1)>>}

PublishArgsHandlers == {<<HandlerTopic, Str("v")>>}

\* the symbols created after the first count of them
SymbolsCreated(from, to) ==
  [i \in 1..(to - from) |-> Sym(HandlerTopic.s, from + i)]

PublishHandlers ==
  \E args \in PublishArgsHandlers :
    LET r == publishHandlers([map |-> topicToSubscriptionsMap,
                              symbolCount |-> symbolCount,
                              calls |-> <<>>, threw |-> FALSE,
                              ret |-> Undefined, targeted |-> {}],
                             Head(args), Tail(args), FALSE)
    IN  /\ r.symbolCount <= MaxSymbols
        /\ topicToSubscriptionsMap' = r.map
        /\ symbolCount' = r.symbolCount
        /\ returned' = returned \o SymbolsCreated(symbolCount, r.symbolCount)
        /\ last' = [op |-> "publish", args |-> args,
                    threw |-> r.threw, ret |-> r.ret,
                    pre |-> topicToSubscriptionsMap, calls |-> r.calls,
                    targeted |-> r.targeted]
        /\ UNCHANGED ledger

NextHandlers ==
  \/ Subscribe(SubscribeArgsHandlers)
  \/ PublishHandlers
  \/ Unsubscribe(SymbolArgsInputs)

SpecHandlers == Init /\ [][NextHandlers]_vars

(***************************************************************************)
(* The calls with valid arguments, recording nothing, where every topic    *)
(* keeps being published to: a publish call to each topic is always        *)
(* possible and is eventually made.  The subscribe calls are finite in     *)
(* number.                                                                 *)
(***************************************************************************)
SubscribeCall ==
  \E args \in SubscribeArgsValid :
    LET r == subscribe(topicToSubscriptionsMap, symbolCount,
                       args[1], args[2], args[3])
    IN  /\ r.symbolCount <= MaxSymbols
        /\ topicToSubscriptionsMap' = r.map
        /\ symbolCount' = r.symbolCount
        /\ returned' = Append(returned, r.ret)
        /\ UNCHANGED <<last, ledger>>

PublishCall(args) ==
  /\ topicToSubscriptionsMap' =
       publish(topicToSubscriptionsMap, Head(args), Tail(args)).map
  /\ UNCHANGED <<symbolCount, returned, last, ledger>>

UnsubscribeCall ==
  \E args \in UnsubscribeArgsValid :
    /\ topicToSubscriptionsMap' =
         unsubscribe(topicToSubscriptionsMap, args).map
    /\ UNCHANGED <<symbolCount, returned, last, ledger>>

NextCalls ==
  \/ SubscribeCall
  \/ \E args \in PublishArgsValid : PublishCall(args)
  \/ UnsubscribeCall

SpecFair ==
  /\ Init
  /\ [][NextCalls]_vars
  /\ \A args \in PublishArgsValid : WF_vars(PublishCall(args))

(***************************************************************************)
(* Vocabulary of the properties.                                           *)
(***************************************************************************)
\* the sequence of a topic in a map; an absent topic has the empty sequence
SequenceOf(map, topic) ==
  IF \E i \in 1..Len(map) : map[i].key = topic
  THEN (CHOOSE e \in {map[i] : i \in 1..Len(map)} : e.key = topic).value
  ELSE <<>>

\* the subscription has remaining budget: unbounded, or a number above zero
HasBudget(sub) ==
  \/ sub.invocationsLeft = Infinity
  \/ sub.invocationsLeft.s = "finite" /\ sub.invocationsLeft.n >= 1

\* the subscription's budget is exhausted
Exhausted(sub) == sub.invocationsLeft = Num(0)

\* the last call was this operation and returned
Returned(op) == last.op = op /\ ~last.threw

\* the topic and the sequence a returned publish call found
PublishedTopic == last.args[1]
PublishedSequence == SequenceOf(last.pre, PublishedTopic)

(***************************************************************************)
(* C1  When every subscription of the topic has remaining budget, one      *)
(* publish call invokes the handler of each subscription exactly once, in  *)
(* registration order, each with exactly the published arguments.          *)
(***************************************************************************)
C1_PublishInvokesAllInOrder ==
  (Returned("publish")
     /\ \A i \in 1..Len(PublishedSequence) : HasBudget(PublishedSequence[i]))
  => last.calls = [i \in 1..Len(PublishedSequence) |->
                     [symbol |-> PublishedSequence[i].symbol,
                      handler |-> PublishedSequence[i].handler,
                      args |-> Tail(last.args)]]

\* two subscriptions with distinct handlers, both with budget, were published
\* to with two arguments
C1_Witness ==
  /\ Returned("publish")
  /\ Len(PublishedSequence) >= 2
  /\ \A i \in 1..Len(PublishedSequence) : HasBudget(PublishedSequence[i])
  /\ PublishedSequence[1].handler # PublishedSequence[2].handler
  /\ Len(last.args) = 3
  /\ Len(last.calls) = Len(PublishedSequence)

(***************************************************************************)
(* C2  Whatever mix of exhausted and live subscriptions the sequence       *)
(* holds, every subscription that had remaining budget when publish was    *)
(* called is invoked exactly once in that call.                            *)
(***************************************************************************)
C2_NoSkipNoDouble ==
  Returned("publish")
  => \A i \in 1..Len(PublishedSequence) :
       HasBudget(PublishedSequence[i])
       => CountCalls(last.calls, PublishedSequence[i].symbol) = 1

(***************************************************************************)
(* C5  publish returns false exactly when the topic has no sequence or an  *)
(* empty one at the call, and true when the sequence holds a subscription, *)
(* also when all of them are exhausted and none is invoked.                *)
(***************************************************************************)
C5_PublishResult ==
  Returned("publish")
  => /\ last.ret \in {True, False}
     /\ last.ret = False <=> Len(PublishedSequence) = 0
     /\ last.ret = True <=> Len(PublishedSequence) >= 1

\* publish returned true though every subscription was exhausted and none
\* was invoked
C5_Witness ==
  /\ Returned("publish")
  /\ Len(PublishedSequence) >= 1
  /\ \A i \in 1..Len(PublishedSequence) : Exhausted(PublishedSequence[i])
  /\ last.calls = <<>>
  /\ last.ret = True

(***************************************************************************)
(* C3  A subscription created with budget N and never removed by an        *)
(* unsubscribe call is invoked on exactly the first N publish calls to its *)
(* topic: after p such calls it has been invoked min(p, N) times.          *)
(***************************************************************************)
Min(a, b) == IF a < b THEN a ELSE b

C3_FiresOnFirstN ==
  \A i \in 1..Len(ledger) :
    (ledger[i].invocationsLeft # Undefined /\ ~ledger[i].unsubscribed)
    => ledger[i].invoked = Min(ledger[i].published, ledger[i].invocationsLeft.n)

(***************************************************************************)
(* C4  A subscription created without a budget and never removed by an     *)
(* unsubscribe call stays in the sequence of its topic and has been        *)
(* invoked on every publish call to the topic.                             *)
(***************************************************************************)
C4_UnboundedFiresAlways ==
  \A i \in 1..Len(ledger) :
    (ledger[i].invocationsLeft = Undefined /\ ~ledger[i].unsubscribed)
    => /\ \E j \in 1..Len(SequenceOf(topicToSubscriptionsMap, ledger[i].topic)) :
            SequenceOf(topicToSubscriptionsMap, ledger[i].topic)[j].symbol
              = returned[i]
       /\ ledger[i].invoked = ledger[i].published

(***************************************************************************)
(* C6  An exhausted subscription stays in the sequence until the next      *)
(* publish call to its topic, and that call removes it without invoking    *)
(* it; this holds for every exhausted subscription of the sequence.        *)
(***************************************************************************)
C6_ExhaustedRemovedOnNextPublish ==
  /\ Returned("publish")
     => \A i \in 1..Len(PublishedSequence) :
          Exhausted(PublishedSequence[i])
          => /\ PublishedSequence[i].symbol
                  \notin SymbolsIn(topicToSubscriptionsMap)
             /\ CountCalls(last.calls, PublishedSequence[i].symbol) = 0
  /\ (Returned("subscribe") \/ Returned("publish"))
     => \A i \in 1..Len(last.pre) :
          (last.op = "subscribe" \/ last.pre[i].key # PublishedTopic)
          => \A j \in 1..Len(last.pre[i].value) :
               Exhausted(last.pre[i].value[j])
               => last.pre[i].value[j].symbol
                    \in SymbolsIn(topicToSubscriptionsMap)

(***************************************************************************)
(* C7  unsubscribe(handle) with the handle of a subscription in the        *)
(* registry removes exactly that subscription, every other subscription of *)
(* every topic keeping its position, handler and budget, and returns true; *)
(* with a handle no subscription carries it returns false and changes      *)
(* nothing, so a second unsubscribe with the same handle returns false.    *)
(***************************************************************************)
\* the map without the subscriptions that carry the symbol
WithoutSymbol(map, symbol) ==
  [i \in 1..Len(map) |->
     [key |-> map[i].key,
      value |-> SelectSeq(map[i].value, LAMBDA sub : sub.symbol # symbol)]]

\* number of subscriptions in the map
CountSubscriptions(map) ==
  Cardinality(UNION {{<<i, j>> : j \in 1..Len(map[i].value)} :
                     i \in 1..Len(map)})

C7_UnsubscribeByHandle ==
  (Returned("unsubscribe") /\ Len(last.args) = 1)
  => IF last.args[1] \in SymbolsIn(last.pre)
     THEN /\ last.ret = True
          /\ topicToSubscriptionsMap = WithoutSymbol(last.pre, last.args[1])
          /\ CountSubscriptions(topicToSubscriptionsMap)
               = CountSubscriptions(last.pre) - 1
          /\ LET again == unsubscribe(topicToSubscriptionsMap, last.args)
             IN  /\ ~again.threw
                 /\ again.ret = False
                 /\ again.map = topicToSubscriptionsMap
     ELSE /\ last.ret = False
          /\ topicToSubscriptionsMap = last.pre

\* the first of two subscriptions of one topic was removed by its handle
\* while another topic held a subscription
C7_Witness ==
  /\ Returned("unsubscribe")
  /\ Len(last.args) = 1
  /\ last.ret = True
  /\ CountSubscriptions(last.pre) = 3
  /\ \E i \in 1..Len(last.pre) :
       /\ Len(last.pre[i].value) = 2
       /\ last.pre[i].value[1].symbol = last.args[1]

(***************************************************************************)
(* C8  When the same handler is subscribed two or more times to a topic,   *)
(* unsubscribe(topic, handler) removes only the earliest of them and       *)
(* returns true; the others stay in their order and, when they have        *)
(* budget, are invoked by the next publish call to the topic.              *)
(***************************************************************************)
\* indices of the sequence whose subscription has the handler
WithHandler(sequence, handler) ==
  {i \in 1..Len(sequence) : sequence[i].handler = handler}

C8_UnsubscribeFirstDuplicate ==
  (/\ Returned("unsubscribe")
   /\ Len(last.args) = 2
   /\ Cardinality(WithHandler(SequenceOf(last.pre, last.args[1]),
                              last.args[2])) >= 2)
  => LET topic == last.args[1]
         before == SequenceOf(last.pre, topic)
         after == SequenceOf(topicToSubscriptionsMap, topic)
         dups == WithHandler(before, last.args[2])
         first == CHOOSE i \in dups : \A j \in dups : i <= j
         next == publish(topicToSubscriptionsMap, topic, <<Str("v")>>)
     IN  /\ last.ret = True
         /\ after = [i \in 1..(Len(before) - 1) |->
                       IF i < first THEN before[i] ELSE before[i + 1]]
         /\ \A i \in 1..Len(last.pre) :
              last.pre[i].key # topic
              => topicToSubscriptionsMap[i] = last.pre[i]
         /\ \A i \in dups \ {first} :
              HasBudget(before[i])
              => CountCalls(next.calls, before[i].symbol) = 1

(***************************************************************************)
(* C9  Every call with invalid input raises the error and leaves the       *)
(* registry, the topics of the map and the sequence of each, as it was.    *)
(***************************************************************************)
InvalidTopic(v) == v.type # "string" \/ v.s = ""

InvalidCall(op, args) ==
  \/ /\ op = "subscribe"
     /\ \/ InvalidTopic(args[1])
        \/ args[2].type # "function"
        \/ /\ args[3] # Undefined
           /\ \/ args[3].type # "number"
              \/ args[3].s = "finite" /\ args[3].n <= 0
  \/ op = "publish" /\ InvalidTopic(args[1])
  \/ /\ op = "unsubscribe"
     /\ \/ Len(args) \notin {1, 2}
        \/ Len(args) = 1 /\ args[1].type # "symbol"
        \/ Len(args) = 2 /\ (InvalidTopic(args[1]) \/ args[2].type # "function")

C9_InvalidInputRaisesAndKeepsState ==
  InvalidCall(last.op, last.args)
  => /\ last.threw
     /\ topicToSubscriptionsMap = last.pre

(***************************************************************************)
(* C10  Every successful subscribe returns a handle different from every   *)
(* handle returned before, and at most one subscription of the registry    *)
(* carries a given handle.                                                 *)
(***************************************************************************)
C10_HandlesUnique ==
  /\ \A i, j \in 1..Len(returned) : i # j => returned[i] # returned[j]
  /\ Returned("subscribe") => last.ret = returned[Len(returned)]
  /\ \A symbol \in SymbolsIn(topicToSubscriptionsMap) :
       CountSubscriptions(topicToSubscriptionsMap)
         - CountSubscriptions(WithoutSymbol(topicToSubscriptionsMap, symbol))
         = 1

\* a subscribe with the topic and handler of an earlier subscription
\* returned, after a subscription was removed
C10_Witness ==
  /\ Returned("subscribe")
  /\ \E j \in 1..Len(SequenceOf(last.pre, last.args[1])) :
       SequenceOf(last.pre, last.args[1])[j].handler = last.args[2]
  /\ \E i \in 1..Len(returned) :
       returned[i] \notin SymbolsIn(topicToSubscriptionsMap)

(***************************************************************************)
(* C11  An unsubscribe call that finds no match returns false and leaves   *)
(* every sequence of the registry as it was: unsubscribe(topic, handler)   *)
(* with a handler not subscribed to that topic, also when it is subscribed *)
(* to another topic or the topic is absent, and unsubscribe(handle) with a *)
(* handle no subscription carries.                                         *)
(***************************************************************************)
\* the unsubscribe call recorded as the last call finds no match
NoMatch ==
  \/ /\ Len(last.args) = 1
     /\ last.args[1] \notin SymbolsIn(last.pre)
  \/ /\ Len(last.args) = 2
     /\ WithHandler(SequenceOf(last.pre, last.args[1]), last.args[2]) = {}

C11_NoMatchUnsubscribe ==
  (Returned("unsubscribe") /\ NoMatch)
  => /\ last.ret = False
     /\ topicToSubscriptionsMap = last.pre

\* unsubscribe(topic, handler) returned where the topic has subscriptions,
\* none with the handler, and the handler is subscribed to another topic
C11_Witness ==
  /\ Returned("unsubscribe")
  /\ Len(last.args) = 2
  /\ NoMatch
  /\ SequenceOf(last.pre, last.args[1]) # <<>>
  /\ \E i \in 1..Len(last.pre) :
       /\ last.pre[i].key # last.args[1]
       /\ WithHandler(last.pre[i].value, last.args[2]) # {}

(***************************************************************************)
(* C12  The entries a publish call removes are exhausted subscriptions:    *)
(* every subscription the call found with remaining budget, positive or    *)
(* unbounded, is still in the registry when the call returns, also when    *)
(* several subscriptions of the topic share one handler.                   *)
(***************************************************************************)
C12_PublishRemovesOnlyExhausted ==
  Returned("publish")
  => \A i \in 1..Len(PublishedSequence) :
       HasBudget(PublishedSequence[i])
       => PublishedSequence[i].symbol \in SymbolsIn(topicToSubscriptionsMap)

(***************************************************************************)
(* C13  As stated: in every reachable state every subscription present in  *)
(* a sequence has invocationsLeft positive or unbounded, never 0 or less.  *)
(***************************************************************************)
\* the subscriptions of all the sequences of the map
SubscriptionsIn(map) ==
  UNION {{map[i].value[j] : j \in 1..Len(map[i].value)} : i \in 1..Len(map)}

C14_RemovalIsTerminal ==
  [][\A i \in 1..Len(returned) :
       returned[i] \notin SymbolsIn(topicToSubscriptionsMap)
       => /\ returned[i] \notin SymbolsIn(topicToSubscriptionsMap')
          /\ (last'.op = "unsubscribe" /\ last'.args = <<returned[i]>>)
             => (~last'.threw /\ last'.ret = False)]_vars

\* unsubscribe with the handle of a removed subscription returned, a
\* subscription of the same topic having been added after that handle was
\* returned
C14_Witness ==
  /\ Returned("unsubscribe")
  /\ Len(last.args) = 1
  /\ last.args[1] \notin SymbolsIn(last.pre)
  /\ \E i, j \in 1..Len(returned) :
       /\ i < j
       /\ returned[i] = last.args[1]
       /\ returned[j] \in SymbolsIn(last.pre)
       /\ returned[j].s = returned[i].s

(***************************************************************************)
(* C15  A subscribe call that returns appends the new subscription, with   *)
(* the returned handle, the handler and the budget of the call, at the end *)
(* of the sequence of its topic, whose earlier subscriptions keep their    *)
(* order, handlers and budgets; the sequences of all other topics are      *)
(* unchanged.                                                              *)
(***************************************************************************)
C15_SubscribeAppends ==
  Returned("subscribe")
  => LET topic == last.args[1]
         invocationsLeft ==
           IF last.args[3] = Undefined THEN Infinity ELSE last.args[3]
     IN  /\ SequenceOf(topicToSubscriptionsMap, topic)
              = Append(SequenceOf(last.pre, topic),
                       [symbol |-> last.ret, handler |-> last.args[2],
                        invocationsLeft |-> invocationsLeft])
         /\ \A i \in 1..Len(last.pre) :
              last.pre[i].key # topic
              => topicToSubscriptionsMap[i] = last.pre[i]
         /\ MapKeys(topicToSubscriptionsMap) = MapKeys(last.pre) \cup {topic}
         /\ Len(topicToSubscriptionsMap) = Cardinality(MapKeys(last.pre)
                                                         \cup {topic})

\* subscribe returned for a topic that had a subscription, of another
\* handler, while another topic had a subscription
C15_Witness ==
  /\ Returned("subscribe")
  /\ Len(last.pre) = 2
  /\ \A i \in 1..2 : last.pre[i].value # <<>>
  /\ LET sequence == SequenceOf(last.pre, last.args[1])
     IN  /\ Len(sequence) = 1
         /\ sequence[1].handler # last.args[2]

(***************************************************************************)
(* C16  When a handler throws during a publish call, the call throws to    *)
(* its caller and no handler is called after the one that threw; the       *)
(* counter of the subscription that threw is as it was before the call,    *)
(* and the counter of every subscription whose handler returned earlier in *)
(* the pass is lower by the number of its invocations.                     *)
(***************************************************************************)
\* v - k for a JavaScript number v
NumMinus(v, k) == IF v.s = "finite" THEN Num(v.n - k) ELSE v

\* the last call was a publish call in which a handler threw
HandlerThrew ==
  /\ last.op = "publish"
  /\ \E i \in 1..Len(last.calls) : last.calls[i].handler.s = "hThrow"

C16_HandlerThrowPropagates ==
  HandlerThrew
  => LET n == Len(last.calls)
         thrower == last.calls[n].symbol
     IN  /\ last.threw
         /\ \A i \in 1..n : last.calls[i].handler.s = "hThrow" <=> i = n
         /\ \E sub \in SubscriptionsIn(last.pre) :
              /\ sub.symbol = thrower
              /\ sub \in SubscriptionsIn(topicToSubscriptionsMap)
         /\ \A before \in SubscriptionsIn(last.pre) :
              \A after \in SubscriptionsIn(topicToSubscriptionsMap) :
                (/\ after.symbol = before.symbol
                 /\ before.symbol # thrower
                 /\ before.handler.s # "hPublish")
                => after.invocationsLeft
                     = NumMinus(before.invocationsLeft,
                                CountCalls(last.calls, before.symbol))

\* of three subscriptions with budget the first was invoked and its counter
\* went down, the second, with a finite counter, threw, and the third was
\* not invoked
C16_Witness ==
  /\ HandlerThrew
  /\ Len(PublishedSequence) = 3
  /\ Len(last.calls) = 2
  /\ last.calls[1].symbol = PublishedSequence[1].symbol
  /\ PublishedSequence[1].invocationsLeft = Num(1)
  /\ last.calls[2].symbol = PublishedSequence[2].symbol
  /\ PublishedSequence[2].invocationsLeft = Num(1)
  /\ HasBudget(PublishedSequence[3])

(***************************************************************************)
(* C17  When a handler invoked by a publish call calls subscribe,          *)
(* unsubscribe or publish on the registry, the outer publish call returns  *)
(* without an error and the registry is well-formed: no handle is carried  *)
(* by two subscriptions, each removal takes at most one subscription, and  *)
(* the subscriptions the call found that no removal was aimed at are all   *)
(* present, in their original relative order.                              *)
(***************************************************************************)
\* the handlers that call the registry
Reentrant(handler) ==
  handler.s \in {"hUnsubscribeSymbol", "hUnsubscribeHandler",
                 "hSubscribe", "hPublish"}

\* the last call was a publish call in which a handler called the registry
\* and no handler threw
ReentrantPublish ==
  /\ last.op = "publish"
  /\ \E i \in 1..Len(last.calls) : Reentrant(last.calls[i].handler)
  /\ ~HandlerThrew

\* the symbols of a sequence of subscriptions, in order
RECURSIVE SymbolsOf(_)
SymbolsOf(sequence) ==
  IF sequence = <<>> THEN <<>>
  ELSE <<Head(sequence).symbol>> \o SymbolsOf(Tail(sequence))

C17_ReentrantCallsKeepRegistry ==
  ReentrantPublish
  => LET before == SymbolsOf(PublishedSequence)
         after == SymbolsOf(SequenceOf(topicToSubscriptionsMap,
                                       PublishedTopic))
         found == {before[i] : i \in 1..Len(before)}
     IN  /\ ~last.threw
         /\ \A i, j \in 1..Len(after) : i # j => after[i] # after[j]
         /\ Len(before) - Len(SelectSeq(after, LAMBDA s : s \in found))
              <= Cardinality(last.targeted)
         /\ SelectSeq(after, LAMBDA s : s \in found \ last.targeted)
              = SelectSeq(before, LAMBDA s : s \notin last.targeted)

(***************************************************************************)
(* C18  When a handler unsubscribes its own subscription, by its handle or *)
(* by topic and handler, while a publish call invokes it, every other      *)
(* subscription of the topic that had remaining budget when the call began *)
(* is invoked exactly once in that call; the subscription right after the  *)
(* removed one is not passed over.  Stated for a topic whose subscriptions *)
(* all have budget and whose other handlers only return.                   *)
(***************************************************************************)
\* the handlers that unsubscribe their own subscription
SelfUnsubscribing(handler) ==
  handler.s \in {"hUnsubscribeSymbol", "hUnsubscribeHandler"}

\* the last call was a publish call that returned, to a topic whose
\* subscriptions all had budget, some with a handler that unsubscribes its
\* own subscription and the others with handlers that return
SelfUnsubscribePublish ==
  /\ Returned("publish")
  /\ \A i \in 1..Len(PublishedSequence) :
       /\ HasBudget(PublishedSequence[i])
       /\ \/ SelfUnsubscribing(PublishedSequence[i].handler)
          \/ PublishedSequence[i].handler \in {Fn("h1"), Fn("h2")}
  /\ \E i \in 1..Len(last.calls) : SelfUnsubscribing(last.calls[i].handler)

C18_SelfUnsubscribeSkipsNone ==
  SelfUnsubscribePublish
  => \A i \in 1..Len(PublishedSequence) :
       CountCalls(last.calls, PublishedSequence[i].symbol) = 1

(***************************************************************************)
(* C19  A subscription with a finite budget is invoked by a publish call   *)
(* no more times than the counter it had when the call began, and no       *)
(* counter in the registry is below 0, also when a handler of the topic    *)
(* calls publish on the same topic during its own invocation.              *)
(***************************************************************************)
C19_BudgetNeverExceeded ==
  last.op = "publish"
  => /\ \A i \in 1..Len(PublishedSequence) :
          PublishedSequence[i].invocationsLeft.s = "finite"
          => CountCalls(last.calls, PublishedSequence[i].symbol)
               <= PublishedSequence[i].invocationsLeft.n
     /\ \A sub \in SubscriptionsIn(topicToSubscriptionsMap) :
          HasBudget(sub) \/ Exhausted(sub)

(***************************************************************************)
(* C20  Every publish call that finds an exhausted subscription in the     *)
(* sequence of its topic leaves the sequence shorter; and when every topic *)
(* keeps being published to, once no more subscriptions are added the      *)
(* sequence of each topic eventually holds no exhausted subscription, and  *)
(* holds none from then on.                                                *)
(***************************************************************************)
\* the sequence of the topic holds no exhausted subscription
NoExhausted(topic) ==
  \A i \in 1..Len(SequenceOf(topicToSubscriptionsMap, topic)) :
    ~Exhausted(SequenceOf(topicToSubscriptionsMap, topic)[i])

C20_PruningFinishes ==
  /\ [][\A args \in PublishArgsValid :
          (PublishCall(args) /\ ~NoExhausted(Head(args)))
          => Len(SequenceOf(topicToSubscriptionsMap', Head(args)))
               < Len(SequenceOf(topicToSubscriptionsMap, Head(args)))]_vars
  /\ \A args \in PublishArgsValid : <>[]NoExhausted(Head(args))

\* the sequence of a topic holds two exhausted subscriptions, of which the
\* next publish call visits one
C20_Witness ==
  \E args \in PublishArgsValid :
    LET sequence == SequenceOf(topicToSubscriptionsMap, Head(args))
    IN  \E i, j \in 1..Len(sequence) :
          i < j /\ Exhausted(sequence[i]) /\ Exhausted(sequence[j])

====
